---- MODULE Spec2Model ----
(***************************************************************************)
(* Model of fast_clean/depends.py: the CoreProvider dependency graph, its  *)
(* provider functions, the process-wide manager handles they use           *)
(* (RedisManager.redis, CacheManager.cache_repository) and the APP and     *)
(* REQUEST scope instances in which the providers are invoked; the lock    *)
(* service the provider hands out; and the request helpers get_pagination  *)
(* and get_sorting.                                                        *)
(***************************************************************************)
EXTENDS Integers, Sequences, FiniteSets, TLC

\* ------------------------------------------------------------------ bounds
MaxApps == 2         \* APP containers
MaxRequests == 2     \* REQUEST scopes
MaxCallers == 2      \* callers of the lock service
MaxTokens == 3       \* ownership tokens drawn
MaxPage == 2         \* page and page_size range over -MaxPage..MaxPage
MaxSortLen == 2      \* length of a sorting string

Apps == 1..MaxApps
Requests == 1..MaxRequests
Callers == 1..MaxCallers

\* ------------------------------------------------------------ value domain
None == 0
Absent == 0 - 1
NoError == "none"

\* ------------------------------------------------------- the provider graph
AppCaps ==
    {"SettingsRepositoryFactory", "StorageRepositoryFactory", "SettingsRepository",
     "CoreSettings", "Cache", "Storage", "CryptographyServiceFactory",
     "CryptographyService", "LockService"}

ReqCaps == {"AsyncSession", "SessionManager", "SeedService", "TransactionService"}

Caps == AppCaps \cup ReqCaps \cup {"KafkaBroker"}

\* Capabilities that carry a provide declaration. get_broker_repository is a
\* plain staticmethod of the class: it has no provide decorator.
Registered == AppCaps \cup ReqCaps

\* Constructor parameters of the classes registered with provide(Class).
ClassDeps(cap) ==
    CASE cap = "SeedService" -> {"SessionManager"}
      [] cap = "TransactionService" -> {"AsyncSession"}
      [] OTHER -> {}

DepsCyclic(cap) ==
    CASE cap = "SettingsRepository" -> {"SettingsRepositoryFactory", "CoreSettings"}
      [] cap = "CoreSettings" -> {"SettingsRepository"}
      [] cap = "Cache" -> {"SettingsRepository"}
      [] cap = "Storage" -> {"SettingsRepository", "StorageRepositoryFactory"}
      [] cap = "AsyncSession" -> {"SettingsRepository"}
      [] cap = "SessionManager" -> {"AsyncSession"}
      [] cap = "CryptographyServiceFactory" -> {"CoreSettings"}
      [] cap = "CryptographyService" -> {"CryptographyServiceFactory"}
      [] cap = "LockService" -> {"CoreSettings"}
      [] cap = "KafkaBroker" -> {"SettingsRepository"}
      [] OTHER -> ClassDeps(cap)

DepsSessionUndeclared(cap) ==
    CASE cap = "SettingsRepository" -> {"SettingsRepositoryFactory"}
      [] cap = "CoreSettings" -> {"SettingsRepository"}
      [] cap = "Cache" -> {"SettingsRepository"}
      [] cap = "Storage" -> {"SettingsRepository", "StorageRepositoryFactory"}
      [] cap = "AsyncSession" -> {"SettingsRepository"}
      [] cap = "SessionManager" -> {}
      [] cap = "CryptographyServiceFactory" -> {"CoreSettings"}
      [] cap = "CryptographyService" -> {"CryptographyServiceFactory"}
      [] cap = "LockService" -> {"CoreSettings"}
      [] cap = "KafkaBroker" -> {"SettingsRepository"}
      [] OTHER -> ClassDeps(cap)

DepsCacheOnSession(cap) ==
    CASE cap = "SettingsRepository" -> {"SettingsRepositoryFactory"}
      [] cap = "CoreSettings" -> {"SettingsRepository"}
      [] cap = "Cache" -> {"SettingsRepository", "AsyncSession"}
      [] cap = "Storage" -> {"SettingsRepository", "StorageRepositoryFactory"}
      [] cap = "AsyncSession" -> {"SettingsRepository"}
      [] cap = "SessionManager" -> {"AsyncSession"}
      [] cap = "CryptographyServiceFactory" -> {"CoreSettings"}
      [] cap = "CryptographyService" -> {"CryptographyServiceFactory"}
      [] cap = "LockService" -> {"CoreSettings"}
      [] cap = "KafkaBroker" -> {"SettingsRepository"}
      [] OTHER -> ClassDeps(cap)

\* The declared dependencies: the typed parameters of each provider function.
Deps(cap) ==
    CASE cap = "SettingsRepository" -> {"SettingsRepositoryFactory"}
      [] cap = "CoreSettings" -> {"SettingsRepository"}
      [] cap = "Cache" -> {"SettingsRepository"}
      [] cap = "Storage" -> {"SettingsRepository", "StorageRepositoryFactory"}
      [] cap = "AsyncSession" -> {"SettingsRepository"}
      [] cap = "SessionManager" -> {"AsyncSession"}
      [] cap = "CryptographyServiceFactory" -> {"CoreSettings"}
      [] cap = "CryptographyService" -> {"CryptographyServiceFactory"}
      [] cap = "LockService" -> {"CoreSettings"}
      [] cap = "KafkaBroker" -> {"SettingsRepository"}
      [] OTHER -> ClassDeps(cap)

ScopeOfSessionShared(cap) ==
    IF cap \in {"SessionManager", "SeedService", "TransactionService", "KafkaBroker"}
    THEN "REQUEST" ELSE "APP"

\* The scope tag of each provider: scope=Scope.APP where given, else the
\* class default, scope = Scope.REQUEST.
ScopeOf(cap) == IF cap \in ReqCaps \cup {"KafkaBroker"} THEN "REQUEST" ELSE "APP"


\* ------------------------------------------------------------------- state
VARIABLES
    redis_dsn,          \* CoreSettingsSchema.redis_dsn: None or a DSN
    cache_provider,     \* CoreCacheSettingsSchema.provider
    redis,              \* RedisManager.redis: None or a client id
    cache_repository,   \* CacheManager.cache_repository: None or a repository id
    nextId,             \* identity of the next object constructed
    redisLog,           \* every client ever assigned to RedisManager.redis
    cacheLog,           \* every repository ever assigned to CacheManager.cache_repository
    cacheInits,         \* the arguments of every CacheManager.init call
    appState,           \* per APP scope instance: new / open / closed / aborted
    appCache,           \* per APP scope instance: capability -> memoized value
    appCalls,           \* per APP scope instance: capability -> provider invocations
    appPc,              \* per APP scope instance: the suspended get_cache_repository call,
                        \* its caller, and whether it began with no repository published
    appError,           \* per APP scope instance: the failure that aborted it
    storageSettings,    \* per APP scope instance: CoreStorageSettingsSchema as read
    storageMakes,       \* per APP scope instance: storage_repository_factory.make calls
    reqState,           \* per REQUEST scope instance: idle / open / closed
    reqParent,          \* per open REQUEST scope instance: its APP scope
    reqCache,           \* per REQUEST scope instance: capability -> memoized value
    reqCalls,           \* per REQUEST scope instance: capability -> provider invocations
    reqOrder,           \* per REQUEST scope instance: construction order
    sessions,           \* every AsyncSession made: owner, state, close count
    cryptoMakes,        \* per APP scope instance: cryptography_service_factory.make calls
    lockValue,          \* the transport's value under the lock key: None or a token
    lockNext,           \* the next ownership token
    lockToken,          \* per caller: the token of the lock handle it holds, or None
    lockEvent,          \* per caller: its last acquire or release and what it left
    argPage,            \* get_pagination: the page argument (empty for None)
    argPageSize,        \* get_pagination: the page_size argument (empty for None)
    argSorting,         \* get_sorting: the sorting argument (empty for None)
    retPagination,      \* what get_pagination returned, once called
    retSorting          \* what get_sorting returned or that it raised, once called

coreVars ==
    <<redis_dsn, cache_provider, redis, cache_repository, nextId, redisLog, cacheLog,
      cacheInits, appState, appCache, appCalls, appPc, appError, storageSettings,
      storageMakes, reqState, reqParent, reqCache, reqCalls, reqOrder, sessions,
      cryptoMakes>>

lockVars == <<lockValue, lockNext, lockToken, lockEvent>>

pureVars == <<argPage, argPageSize, argSorting, retPagination, retSorting>>

vars == <<coreVars, lockVars, pureVars>>

EmptyStore == [c \in Caps |-> Absent]
NoCalls == [c \in Caps |-> 0]
Idle == [busy |-> FALSE, caller |-> 0, first |-> FALSE]
NoEvent == [op |-> "none", ok |-> FALSE, left |-> None]
NoFailure == [cap |-> "", kind |-> NoError]
NoSettings == [provider |-> "", s3 |-> FALSE, dir |-> FALSE]

\* The values CoreStorageSettingsSchema can hold: the provider discriminator
\* and whether each sub-block (s3, dir) is present.
StorageSettingsValues ==
    [provider : {"s3", "local", "ftp"}, s3 : BOOLEAN, dir : BOOLEAN]

\* ---------------------------------------------- the world a provider acts on
\* The state one resolution reads and writes: the manager handles, the APP
\* scope a and the REQUEST scope r (0: the caller is the APP container).
World(a, r) ==
    [redis |-> redis, cacheRepo |-> cache_repository, nextId |-> nextId,
     redisLog |-> redisLog, cacheLog |-> cacheLog, cacheInits |-> cacheInits,
     app |-> appCache[a], appCalls |-> appCalls[a],
     req |-> IF r = 0 THEN EmptyStore ELSE reqCache[r],
     reqCalls |-> IF r = 0 THEN NoCalls ELSE reqCalls[r],
     reqOrder |-> IF r = 0 THEN <<>> ELSE reqOrder[r],
     sessions |-> sessions, settings |-> storageSettings[a],
     makes |-> storageMakes[a], crypto |-> cryptoMakes[a], err |-> NoFailure,
     suspended |-> FALSE]

\* The memoized value of cap as seen from the scope chain, or Absent.
Lookup(w, cap) == IF ScopeOf(cap) = "APP" THEN w.app[cap] ELSE w.req[cap]

\* The resolver counts the invocation of cap's provider in cap's scope.
Called(w, cap) ==
    IF ScopeOf(cap) = "APP"
    THEN [w EXCEPT !.appCalls[cap] = @ + 1]
    ELSE [w EXCEPT !.reqCalls[cap] = @ + 1]

\* The resolver stores the constructed value in the scope matching cap's tag.
Return(w, cap, v) ==
    IF ScopeOf(cap) = "APP"
    THEN [w EXCEPT !.app[cap] = v]
    ELSE [w EXCEPT !.req[cap] = v, !.reqOrder = Append(@, cap)]

\* A provider raises: nothing is memoized, the error is carried to the caller.
Raise(w, cap, kind) == [w EXCEPT !.err = [cap |-> cap, kind |-> kind]]

\* ------------------------------------------------- the manager singletons
\* RedisManager.init(redis_dsn): a no-op once a client is published; otherwise
\* it constructs the client from the DSN and publishes it.
RedisManagerInit(w, dsn) ==
    IF w.redis # None
    THEN w
    ELSE [w EXCEPT !.redis = w.nextId, !.nextId = @ + 1,
                   !.redisLog = Append(@, w.nextId)]

\* CacheManager.init(cache_settings, redis): a no-op once a repository is
\* published; otherwise it constructs the repository the settings select and
\* publishes it. A repository backed by Redis cannot be built on an absent
\* client, and then nothing is published.
CacheManagerInit(w, provider, client) ==
    LET w1 == [w EXCEPT !.cacheInits =
                   Append(@, [redis |-> client, before |-> w.cacheRepo])]
    IN  IF w.cacheRepo # None \/ (provider = "redis" /\ client = None)
        THEN w1
        ELSE [w1 EXCEPT !.cacheRepo = w.nextId, !.nextId = @ + 1,
                        !.cacheLog = Append(@, [id |-> w.nextId, redis |-> client])]

\* ------------------------------------------------------ provider functions
GetCacheRepositoryBeginNoInit(w) == w

\* get_cache_repository up to its second await: the settings are read and,
\* with a DSN configured, RedisManager.init is called.
GetCacheRepositoryBegin(w) ==
    IF redis_dsn # None THEN RedisManagerInit(w, redis_dsn) ELSE w

GetCacheRepositoryEndAssigns(w) ==
    LET w1 == [w EXCEPT !.cacheRepo = w.nextId, !.nextId = @ + 1,
                        !.cacheLog = Append(@, [id |-> w.nextId, redis |-> w.redis])]
    IN  Return(w1, "Cache", w1.cacheRepo)

GetCacheRepositoryEndNoRaise(w) ==
    LET w1 == IF w.cacheRepo = None
              THEN CacheManagerInit(w, cache_provider, w.redis)
              ELSE w
    IN  Return(w1, "Cache", w1.cacheRepo)

GetCacheRepositoryEndAlwaysInit(w) ==
    LET w1 == CacheManagerInit(w, cache_provider, w.redis)
    IN  IF w1.cacheRepo # None
        THEN Return(w1, "Cache", w1.cacheRepo)
        ELSE Raise(w1, "Cache", "ValueError")

\* get_cache_repository after its second await: CacheManager.init while no
\* repository is published, then the published repository or ValueError.
GetCacheRepositoryEnd(w) ==
    LET w1 == IF w.cacheRepo = None
              THEN CacheManagerInit(w, cache_provider, w.redis)
              ELSE w
    IN  IF w1.cacheRepo # None
        THEN Return(w1, "Cache", w1.cacheRepo)
        ELSE Raise(w1, "Cache", "ValueError")

StorageChoiceIgnoresBlocks(ss) ==
    IF ss.provider = "s3" THEN "S3"
    ELSE IF ss.provider = "local" THEN "LOCAL"
    ELSE "none"

StorageChoiceDefaultsToLocal(ss) ==
    IF ss.provider = "s3" /\ ss.s3 THEN "S3"
    ELSE IF ss.dir THEN "LOCAL"
    ELSE "none"

\* The branch get_storage_repository takes for the settings ss: the
\* StorageTypeEnum it passes to the factory, or "none" when it raises.
StorageChoice(ss) ==
    IF ss.provider = "s3" /\ ss.s3 THEN "S3"
    ELSE IF ss.provider = "local" /\ ss.dir THEN "LOCAL"
    ELSE "none"

\* The value standing for a storage backend of the given type.
StorageValue(type) == IF type = "S3" THEN 1 ELSE 2

\* get_storage_repository: one factory.make call for the chosen type, or
\* NotImplementedError('Storage ... not allowed') and no call.
GetStorageRepository(w, ss) ==
    LET w1 == [w EXCEPT !.settings = ss]
        type == StorageChoice(ss)
    IN  IF type # "none"
        THEN Return([w1 EXCEPT !.makes = Append(@, type)], "Storage",
                    StorageValue(type))
        ELSE Raise(w1, "Storage", "NotImplementedError")

GetLockServiceOwnClient(w) ==
    IF redis_dsn = None
    THEN Raise(w, "LockService", "AssertionError")
    ELSE LET w1 == [w EXCEPT !.redis = w.nextId, !.nextId = @ + 1,
                             !.redisLog = Append(@, w.nextId)]
         IN  Return(w1, "LockService", w1.redis)

\* get_lock_service: the two assertions around RedisManager.init, then a
\* RedisLockService holding RedisManager.redis.
GetLockService(w) ==
    IF redis_dsn = None
    THEN Raise(w, "LockService", "AssertionError")
    ELSE LET w1 == RedisManagerInit(w, redis_dsn)
         IN  IF w1.redis = None
             THEN Raise(w1, "LockService", "AssertionError")
             ELSE Return(w1, "LockService", w1.redis)

\* get_async_session: entering SessionFactory.make_async_session_static
\* yields a new open session, owned by the scope that asked for it.
GetAsyncSession(w, r) ==
    LET sid == Len(w.sessions) + 1
    IN  Return([w EXCEPT !.sessions =
                    Append(@, [owner |-> r, state |-> "OPEN", closes |-> 0])],
               "AsyncSession", sid)

\* get_session_manager: SessionManagerImpl(session) wraps the resolved session.
GetSessionManager(w) == Return(w, "SessionManager", Lookup(w, "AsyncSession"))

\* settings.secret_key: the key is named by the settings object it is read
\* from.
SecretKeyOf(settings) == settings

\* get_cryptography_service_factory: CryptographyServiceFactory(settings.secret_key);
\* the factory is identified by the key it holds.
GetCryptographyServiceFactory(w) ==
    Return(w, "CryptographyServiceFactory", SecretKeyOf(Lookup(w, "CoreSettings")))

GetCryptographyServiceOtherAlgorithm(w) ==
    LET factory == Lookup(w, "CryptographyServiceFactory")
    IN  Return([w EXCEPT !.crypto =
                    Append(@, [factory |-> factory, algorithm |-> "AES_CBC"])],
               "CryptographyService", factory)

\* get_cryptography_service: the resolved factory makes the service for
\* CryptographicAlgorithmEnum.AES_GCM; the service works with the factory's key.
GetCryptographyService(w) ==
    LET factory == Lookup(w, "CryptographyServiceFactory")
    IN  Return([w EXCEPT !.crypto =
                    Append(@, [factory |-> factory, algorithm |-> "AES_GCM"])],
               "CryptographyService", factory)

\* The resolver invokes cap's provider with its resolved dependencies. Of
\* get_cache_repository only the part before its second await runs here.
Invoke(w, cap, r, ss) ==
    IF cap = "#cycle"
    THEN Raise(w, cap, "CycleError")
    ELSE IF cap \notin Registered \/ (r = 0 /\ ScopeOf(cap) = "REQUEST")
    THEN Raise(w, cap, "NoFactoryError")
    ELSE LET w0 == Called(w, cap)
         IN  CASE cap = "Cache" ->
                      [GetCacheRepositoryBegin(w0) EXCEPT !.suspended = TRUE]
               [] cap = "Storage" -> GetStorageRepository(w0, ss)
               [] cap = "LockService" -> GetLockService(w0)
               [] cap = "AsyncSession" -> GetAsyncSession(w0, r)
               [] cap = "SessionManager" -> GetSessionManager(w0)
               [] cap = "CryptographyServiceFactory" ->
                      GetCryptographyServiceFactory(w0)
               [] cap = "CryptographyService" -> GetCryptographyService(w0)
               [] cap = "SeedService" ->
                      Return(w0, cap, Lookup(w0, "SessionManager"))
               [] cap = "TransactionService" ->
                      Return(w0, cap, Lookup(w0, "AsyncSession"))
               [] OTHER -> Return(w0, cap, 1)

\* ------------------------------------------------------------ the resolver
\* The capabilities a resolution of the set S must construct: S and, for
\* each one not memoized, its declared dependencies, transitively.
RECURSIVE Needed(_, _)
Needed(w, S) ==
    LET missing == {c \in S : Lookup(w, c) = Absent}
        T == missing \cup UNION {Deps(c) : c \in missing}
        U == {c \in T : Lookup(w, c) = Absent}
    IN  IF U = missing THEN missing ELSE Needed(w, U)

\* A construction order of todo: a capability is constructed once all its
\* dependencies are. A dependency cycle leaves nothing constructible.
RECURSIVE Plan(_)
Plan(todo) ==
    IF todo = {}
    THEN <<>>
    ELSE LET ready == {c \in todo : Deps(c) \cap todo = {}}
         IN  IF ready = {}
             THEN <<"#cycle">>
             ELSE LET c == CHOOSE x \in ready : TRUE
                  IN  <<c>> \o Plan(todo \ {c})

\* Construct the planned capabilities in order, stopping at the first failure.
RECURSIVE Run(_, _, _, _)
Run(w, plan, r, ss) ==
    IF plan = <<>> \/ w.err.kind # NoError
    THEN w
    ELSE Run(Invoke(w, Head(plan), r, ss), Tail(plan), r, ss)

\* resolve(cap) from the APP container a (r = 0) or the REQUEST container r.
ResolveWorld(a, r, cap, ss) ==
    Run(World(a, r), Plan(Needed(World(a, r), {cap})), r, ss)

\* ---------------------------------------------------------------- teardown
CloseSessionOnSuccessOnly(sess, sid, outcome) ==
    IF outcome = "success"
    THEN [sess EXCEPT ![sid].state = "COMMITTED_CLOSED", ![sid].closes = @ + 1]
    ELSE sess

\* Leaving the async with of get_async_session: the session is committed or
\* rolled back by the outcome of the unit of work, and closed.
CloseSession(sess, sid, outcome) ==
    [sess EXCEPT ![sid].state =
                     IF outcome = "success" THEN "COMMITTED_CLOSED"
                     ELSE "ROLLED_BACK_CLOSED",
                 ![sid].closes = @ + 1]

\* A scope with the given tag closes: the generator providers memoized in its
\* store are finalized.
Teardown(sess, store, tag, outcome) ==
    IF ScopeOf("AsyncSession") = tag /\ store["AsyncSession"] # Absent
    THEN CloseSession(sess, store["AsyncSession"], outcome)
    ELSE sess

\* --------------------------------------------------------- the lock service
DeleteUnconditionally(value, token) == None

\* The transport's atomic conditional set: the key takes the token only while
\* it holds nothing.
SetIfAbsent(value, token) == IF value = None THEN token ELSE value

\* The transport's compare-and-delete: the key is cleared only while it holds
\* the presented token.
DeleteIfEqual(value, token) == IF value = token THEN None ELSE value

\* ------------------------------------------------------ the request helpers
\* The characters of a sorting string.
Alphabet == {"a", "B", "-", ","}

\* Strings of at most n characters.
Strings(n) == UNION {[1..k -> Alphabet] : k \in 0..n}

\* An optional argument: empty for None, otherwise the one value passed.
Optional(S) == {{}} \cup {{v} : v \in S}

\* PaginationRequestSchema(page=..., page_size=...): the request record.
PaginationRequestSchema(page, page_size) == [page |-> page, page_size |-> page_size]

\* x or default, for an optional integer: None and 0 are falsy.
Or(x, default) == IF x = {} \/ x = {0} THEN default ELSE CHOOSE v \in x : TRUE

GetPaginationNoneOnly(page, page_size) ==
    [page |-> IF page = {} THEN 1 ELSE CHOOSE v \in page : TRUE,
     page_size |-> IF page_size = {} THEN 10 ELSE CHOOSE v \in page_size : TRUE]

\* get_pagination.
GetPagination(page, page_size) ==
    PaginationRequestSchema(Or(page, 1), Or(page_size, 10))

\* str.lower of one character.
Lower(ch) == IF ch = "B" THEN "b" ELSE ch

\* snakecase: '-' becomes '_', the first character is lowered and every
\* later capital is lowered behind a '_'.
RECURSIVE SnakeTail(_)
SnakeTail(s) ==
    IF s = <<>>
    THEN <<>>
    ELSE (IF Head(s) = "B" THEN <<"_", Lower(Head(s))>> ELSE <<Head(s)>>)
             \o SnakeTail(Tail(s))

SnakeCase(s) ==
    LET t == [i \in 1..Len(s) |-> IF s[i] = "-" THEN "_" ELSE s[i]]
    IN  IF t = <<>> THEN t ELSE <<Lower(Head(t))>> \o SnakeTail(Tail(t))

\* str.split(','): the pieces between the commas, empty pieces included.
RECURSIVE Split(_, _)
Split(s, piece) ==
    IF s = <<>>
    THEN <<piece>>
    ELSE IF Head(s) = ","
    THEN <<piece>> \o Split(Tail(s), <<>>)
    ELSE Split(Tail(s), Append(piece, Head(s)))

\* get_sorting: nothing for a falsy argument; otherwise each piece in snake
\* case, a leading '-' kept. s[0] of an empty piece raises IndexError.
GetSorting(sorting) ==
    IF sorting = {} \/ sorting = {<<>>}
    THEN [raised |-> FALSE, value |-> <<>>]
    ELSE LET pieces == Split(CHOOSE v \in sorting : TRUE, <<>>)
         IN  IF \E i \in 1..Len(pieces) : pieces[i] = <<>>
             THEN [raised |-> TRUE, value |-> <<>>]
             ELSE [raised |-> FALSE,
                   value |-> [i \in 1..Len(pieces) |->
                                 IF Head(pieces[i]) = "-"
                                 THEN <<"-">> \o SnakeCase(Tail(pieces[i]))
                                 ELSE SnakeCase(pieces[i])]]

\* ----------------------------------------------------------------- actions
\* How a unit of work may end.
Outcomes == {"success", "failure", "cancelled"}

\* Nothing constructed, no scope entered, no lock taken.
Start ==
    /\ redis = None
    /\ cache_repository = None
    /\ nextId = 1
    /\ redisLog = <<>>
    /\ cacheLog = <<>>
    /\ cacheInits = <<>>
    /\ appState = [a \in Apps |-> "new"]
    /\ appCache = [a \in Apps |-> EmptyStore]
    /\ appCalls = [a \in Apps |-> NoCalls]
    /\ appPc = [a \in Apps |-> Idle]
    /\ appError = [a \in Apps |-> NoFailure]
    /\ storageSettings = [a \in Apps |-> NoSettings]
    /\ storageMakes = [a \in Apps |-> <<>>]
    /\ reqState = [r \in Requests |-> "idle"]
    /\ reqParent = [r \in Requests |-> 0]
    /\ reqCache = [r \in Requests |-> EmptyStore]
    /\ reqCalls = [r \in Requests |-> NoCalls]
    /\ reqOrder = [r \in Requests |-> <<>>]
    /\ sessions = <<>>
    /\ cryptoMakes = [a \in Apps |-> <<>>]
    /\ lockValue = None
    /\ lockNext = 1
    /\ lockToken = [c \in Callers |-> None]
    /\ lockEvent = [c \in Callers |-> NoEvent]
    /\ retPagination = <<>>
    /\ retSorting = <<>>

Init ==
    /\ redis_dsn \in {None, 1}
    /\ cache_provider \in {"in_memory", "redis"}
    /\ argPage = {}
    /\ argPageSize = {}
    /\ argSorting = {}
    /\ Start

\* The outcome of a resolution step of APP scope a for caller r is applied:
\* on success the stores take the new values; on failure the error reaches
\* the caller and the affected scopes are unwound.
Commit(a, r, w) ==
    /\ redis' = w.redis
    /\ cache_repository' = w.cacheRepo
    /\ nextId' = w.nextId
    /\ redisLog' = w.redisLog
    /\ cacheLog' = w.cacheLog
    /\ cacheInits' = w.cacheInits
    /\ storageSettings' = [storageSettings EXCEPT ![a] = w.settings]
    /\ storageMakes' = [storageMakes EXCEPT ![a] = w.makes]
    /\ UNCHANGED <<redis_dsn, cache_provider, lockVars, pureVars>>
    /\ IF w.err.kind = NoError
       THEN /\ appCache' = [appCache EXCEPT ![a] = w.app]
            /\ appCalls' = [appCalls EXCEPT ![a] = w.appCalls]
            /\ appPc' = [appPc EXCEPT ![a] =
                            IF w.suspended
                            THEN [busy |-> TRUE, caller |-> r,
                                  first |-> cache_repository = None]
                            ELSE Idle]
            /\ sessions' = w.sessions
            /\ cryptoMakes' = [cryptoMakes EXCEPT ![a] = w.crypto]
            /\ IF r = 0
               THEN UNCHANGED <<reqCache, reqCalls, reqOrder>>
               ELSE /\ reqCache' = [reqCache EXCEPT ![r] = w.req]
                    /\ reqCalls' = [reqCalls EXCEPT ![r] = w.reqCalls]
                    /\ reqOrder' = [reqOrder EXCEPT ![r] = w.reqOrder]
            /\ UNCHANGED <<appState, appError, reqState, reqParent>>
       ELSE /\ appState' = [appState EXCEPT ![a] = "aborted"]
            /\ appError' = [appError EXCEPT ![a] = w.err]
            /\ appCache' = [appCache EXCEPT ![a] = EmptyStore]
            /\ appCalls' = [appCalls EXCEPT ![a] = NoCalls]
            /\ appPc' = [appPc EXCEPT ![a] = Idle]
            /\ cryptoMakes' = [cryptoMakes EXCEPT ![a] = <<>>]
            /\ sessions' = Teardown(Teardown(w.sessions, w.req, "REQUEST", "failure"),
                                    w.app, "APP", "failure")
            /\ IF r = 0
               THEN UNCHANGED <<reqState, reqParent, reqCache, reqCalls, reqOrder>>
               ELSE /\ reqState' = [reqState EXCEPT ![r] = "closed"]
                    /\ reqParent' = [reqParent EXCEPT ![r] = 0]
                    /\ reqCache' = [reqCache EXCEPT ![r] = EmptyStore]
                    /\ reqCalls' = [reqCalls EXCEPT ![r] = NoCalls]
                    /\ reqOrder' = [reqOrder EXCEPT ![r] = <<>>]

\* An APP container is created (make_async_container(provider)).
AppOpen(a) ==
    /\ appState[a] = "new"
    /\ IF a = 1 THEN TRUE ELSE appState[a - 1] # "new"
    /\ appState' = [appState EXCEPT ![a] = "open"]
    /\ UNCHANGED <<redis_dsn, cache_provider, redis, cache_repository, nextId,
                   redisLog, cacheLog, cacheInits, appCache, appCalls, appPc,
                   appError, storageSettings, storageMakes, reqState, reqParent,
                   reqCache, reqCalls, reqOrder, sessions,
                   cryptoMakes, lockVars, pureVars>>

\* A unit of work enters a REQUEST scope of the APP container a.
ReqOpen(r, a) ==
    /\ reqState[r] = "idle"
    /\ IF r = 1 THEN TRUE ELSE reqState[r - 1] # "idle"
    /\ appState[a] = "open"
    /\ reqState' = [reqState EXCEPT ![r] = "open"]
    /\ reqParent' = [reqParent EXCEPT ![r] = a]
    /\ UNCHANGED <<redis_dsn, cache_provider, redis, cache_repository, nextId,
                   redisLog, cacheLog, cacheInits, appState, appCache, appCalls,
                   appPc, appError, storageSettings, storageMakes, reqCache,
                   reqCalls, reqOrder, sessions,
                   cryptoMakes, lockVars, pureVars>>

\* container.get(cap): a capability not yet memoized is resolved from the APP
\* container (r = 0) or from the REQUEST container r, the storage settings
\* holding one of the values of SS. The APP container serves one resolution
\* at a time.
Resolve(a, r, cap, SS) ==
    /\ appState[a] = "open"
    /\ ~appPc[a].busy
    /\ IF r = 0
       THEN cap \in AppCaps \cup {"KafkaBroker"}
       ELSE reqState[r] = "open" /\ reqParent[r] = a
    /\ Lookup(World(a, r), cap) = Absent
    /\ \E ss \in IF "Storage" \in Needed(World(a, r), {cap})
                 THEN SS ELSE {NoSettings} :
           Commit(a, r, ResolveWorld(a, r, cap, ss))

\* The suspended get_cache_repository call of APP container a resumes.
CacheResume(a) ==
    /\ appPc[a].busy
    /\ Commit(a, appPc[a].caller,
              [GetCacheRepositoryEnd(World(a, appPc[a].caller))
                   EXCEPT !.settings = storageSettings[a]])

\* The unit of work ends (success, failure or cancellation) and its REQUEST
\* scope closes.
ReqClose(r, outcome) ==
    /\ reqState[r] = "open"
    /\ ~(appPc[reqParent[r]].busy /\ appPc[reqParent[r]].caller = r)
    /\ reqState' = [reqState EXCEPT ![r] = "closed"]
    /\ sessions' = Teardown(sessions, reqCache[r], "REQUEST", outcome)
    /\ reqCache' = [reqCache EXCEPT ![r] = EmptyStore]
    /\ reqCalls' = [reqCalls EXCEPT ![r] = NoCalls]
    /\ reqOrder' = [reqOrder EXCEPT ![r] = <<>>]
    /\ reqParent' = [reqParent EXCEPT ![r] = 0]
    /\ UNCHANGED <<redis_dsn, cache_provider, redis, cache_repository, nextId,
                   redisLog, cacheLog, cacheInits, appState, appCache, appCalls,
                   appPc, appError, storageSettings, storageMakes,
                   cryptoMakes, lockVars, pureVars>>

\* The same close of a REQUEST scope, one memoized capability at a time: the
\* unit of work ends with an outcome and the scope starts to unwind ...
ReqCloseBegin(r, outcome) ==
    /\ reqState[r] = "open"
    /\ ~(appPc[reqParent[r]].busy /\ appPc[reqParent[r]].caller = r)
    /\ reqState' = [reqState EXCEPT ![r] = outcome]
    /\ UNCHANGED <<redis_dsn, cache_provider, redis, cache_repository, nextId,
                   redisLog, cacheLog, cacheInits, appState, appCache, appCalls,
                   appPc, appError, storageSettings, storageMakes, reqParent,
                   reqCache, reqCalls, reqOrder, sessions,
                   cryptoMakes, lockVars, pureVars>>

\* ... the capability constructed last is released, a generator provider
\* being finalized as it is (get_async_session leaves its async with) ...
ReqRelease(r) ==
    /\ reqState[r] \in Outcomes
    /\ reqOrder[r] # <<>>
    /\ LET n == Len(reqOrder[r])
           cap == reqOrder[r][n]
       IN  /\ sessions' = Teardown(sessions,
                                   [EmptyStore EXCEPT ![cap] = reqCache[r][cap]],
                                   "REQUEST", reqState[r])
           /\ reqCache' = [reqCache EXCEPT ![r][cap] = Absent]
           /\ reqOrder' = [reqOrder EXCEPT ![r] = SubSeq(@, 1, n - 1)]
    /\ UNCHANGED <<redis_dsn, cache_provider, redis, cache_repository, nextId,
                   redisLog, cacheLog, cacheInits, appState, appCache, appCalls,
                   appPc, appError, storageSettings, storageMakes, reqState,
                   reqParent, reqCalls,
                   cryptoMakes, lockVars, pureVars>>

\* ... and with nothing left to release the scope is closed.
ReqCloseEnd(r) ==
    /\ reqState[r] \in Outcomes
    /\ reqOrder[r] = <<>>
    /\ reqState' = [reqState EXCEPT ![r] = "closed"]
    /\ reqCalls' = [reqCalls EXCEPT ![r] = NoCalls]
    /\ reqParent' = [reqParent EXCEPT ![r] = 0]
    /\ UNCHANGED <<redis_dsn, cache_provider, redis, cache_repository, nextId,
                   redisLog, cacheLog, cacheInits, appState, appCache, appCalls,
                   appPc, appError, storageSettings, storageMakes, reqCache,
                   reqOrder, sessions,
                   cryptoMakes, lockVars, pureVars>>

\* The APP container is closed once its REQUEST scopes are.
AppClose(a) ==
    /\ appState[a] = "open"
    /\ ~appPc[a].busy
    /\ \A r \in Requests : ~(reqState[r] \notin {"idle", "closed"} /\ reqParent[r] = a)
    /\ appState' = [appState EXCEPT ![a] = "closed"]
    /\ sessions' = Teardown(sessions, appCache[a], "APP", "success")
    /\ appCache' = [appCache EXCEPT ![a] = EmptyStore]
    /\ appCalls' = [appCalls EXCEPT ![a] = NoCalls]
    /\ cryptoMakes' = [cryptoMakes EXCEPT ![a] = <<>>]
    /\ UNCHANGED <<redis_dsn, cache_provider, redis, cache_repository, nextId,
                   redisLog, cacheLog, cacheInits, appPc, appError,
                   storageSettings, storageMakes, reqState, reqParent, reqCache,
                   reqCalls, reqOrder, lockVars, pureVars>>

\* The application demands one of the capabilities of T, the storage settings
\* holding one of the values of SS.
Demand(T, SS) ==
    \E a \in Apps, r \in {0} \cup Requests, cap \in T : Resolve(a, r, cap, SS)

\* Scope instances that do not overlap in time: a scope is entered only
\* while no other scope of its kind is open.
AppOpenAlone(a) == (\A b \in Apps : appState[b] # "open") /\ AppOpen(a)
ReqOpenAlone(r, a) == (\A q \in Requests : reqState[q] # "open") /\ ReqOpen(r, a)

\* The whole system: any capability may be demanded of any open scope.
Next ==
    \/ \E a \in Apps : AppOpen(a)
    \/ \E a \in Apps : AppClose(a)
    \/ \E r \in Requests, a \in Apps : ReqOpen(r, a)
    \/ Demand(Caps, StorageSettingsValues)
    \/ \E a \in Apps : CacheResume(a)
    \/ \E r \in Requests, outcome \in Outcomes : ReqClose(r, outcome)

Spec == Init /\ [][Next]_vars

\* The shared infrastructure clients: concurrent APP containers and REQUEST
\* scopes demanding the cache repository, the lock service and the broker.
InfraTargets == {"Cache", "LockService", "KafkaBroker"}

NextInfra ==
    \/ \E a \in Apps : AppOpen(a)
    \/ \E a \in Apps : AppClose(a)
    \/ \E r \in Requests, a \in Apps : ReqOpen(r, a)
    \/ Demand(InfraTargets, {NoSettings})
    \/ \E a \in Apps : CacheResume(a)
    \/ \E r \in Requests, outcome \in Outcomes : ReqClose(r, outcome)

SpecInfra == Init /\ [][NextInfra]_vars

\* Storage backend selection by concurrent APP containers under every value
\* of the storage settings.
StorageTargets == {"Storage", "StorageRepositoryFactory"}

NextStorage ==
    \/ \E a \in Apps : AppOpen(a)
    \/ \E a \in Apps : AppClose(a)
    \/ Demand(StorageTargets, StorageSettingsValues)

SpecStorage == Init /\ [][NextStorage]_vars

\* Units of work: concurrent REQUEST scopes, in APP containers that follow one
\* another, demanding the session, the session manager and the services
\* built on them.
NextSession ==
    \/ \E a \in Apps : AppOpenAlone(a)
    \/ \E a \in Apps : AppClose(a)
    \/ \E r \in Requests, a \in Apps : ReqOpen(r, a)
    \/ Demand(ReqCaps, {NoSettings})
    \/ \E r \in Requests, outcome \in Outcomes : ReqClose(r, outcome)

SpecSession == Init /\ [][NextSession]_vars

\* The whole provider graph, demanded in any order of scope instances that
\* follow one another.
GraphSettings ==
    {[provider |-> "local", s3 |-> FALSE, dir |-> TRUE],
     [provider |-> "ftp", s3 |-> FALSE, dir |-> FALSE]}

NextGraph ==
    \/ \E a \in Apps : AppOpenAlone(a)
    \/ \E a \in Apps : AppClose(a)
    \/ \E r \in Requests, a \in Apps : ReqOpenAlone(r, a)
    \/ Demand(Caps, GraphSettings)
    \/ \E a \in Apps : CacheResume(a)
    \/ \E r \in Requests, outcome \in Outcomes : ReqClose(r, outcome)

SpecGraph == Init /\ [][NextGraph]_vars

\* Units of work whose REQUEST scope unwinds one capability at a time.
NextTeardown ==
    \/ \E a \in Apps : AppOpenAlone(a)
    \/ \E a \in Apps : AppClose(a)
    \/ \E r \in Requests, a \in Apps : ReqOpen(r, a)
    \/ Demand(ReqCaps, {NoSettings})
    \/ \E r \in Requests, outcome \in Outcomes : ReqCloseBegin(r, outcome)
    \/ \E r \in Requests : ReqRelease(r)
    \/ \E r \in Requests : ReqCloseEnd(r)

SpecTeardown == Init /\ [][NextTeardown]_vars

\* A caller takes the lock service of an open APP container and acquires the
\* lock with a fresh ownership token; the key being taken, the bounded wait
\* ends in a timeout.
LockAcquire(a, c) ==
    /\ appState[a] = "open"
    /\ appCache[a]["LockService"] # Absent
    /\ lockToken[c] = None
    /\ lockNext <= MaxTokens
    /\ lockValue' = SetIfAbsent(lockValue, lockNext)
    /\ lockNext' = lockNext + 1
    /\ lockToken' = [lockToken EXCEPT ![c] =
                         IF lockValue' = lockNext THEN lockNext ELSE None]
    /\ lockEvent' = [lockEvent EXCEPT ![c] =
                         [op |-> "acquire", ok |-> lockValue' = lockNext,
                          left |-> lockValue']]
    /\ UNCHANGED <<coreVars, pureVars>>

\* The TTL of the held lock runs out: the transport drops the key.
LockExpire ==
    /\ lockValue # None
    /\ lockValue' = None
    /\ UNCHANGED <<coreVars, pureVars, lockNext, lockToken, lockEvent>>

\* A caller releases with the token of its handle.
LockRelease(a, c) ==
    /\ appState[a] = "open"
    /\ appCache[a]["LockService"] # Absent
    /\ lockToken[c] # None
    /\ lockValue' = DeleteIfEqual(lockValue, lockToken[c])
    /\ lockToken' = [lockToken EXCEPT ![c] = None]
    /\ lockEvent' = [lockEvent EXCEPT ![c] =
                         [op |-> "release", ok |-> lockValue = lockToken[c],
                          left |-> lockValue']]
    /\ UNCHANGED <<coreVars, pureVars, lockNext>>

\* Callers of the lock service of concurrent APP containers.
NextLock ==
    \/ \E a \in Apps : AppOpen(a)
    \/ Demand({"LockService"}, {NoSettings})
    \/ \E a \in Apps, c \in Callers : LockAcquire(a, c)
    \/ LockExpire
    \/ \E a \in Apps, c \in Callers : LockRelease(a, c)

SpecLock == Init /\ [][NextLock]_vars

\* The cryptography providers, demanded by concurrent APP containers and
\* their units of work.
CryptoTargets == {"CoreSettings", "CryptographyServiceFactory", "CryptographyService"}

NextCrypto ==
    \/ \E a \in Apps : AppOpen(a)
    \/ \E a \in Apps : AppClose(a)
    \/ \E r \in Requests, a \in Apps : ReqOpen(r, a)
    \/ Demand(CryptoTargets, {NoSettings})
    \/ \E r \in Requests, outcome \in Outcomes : ReqClose(r, outcome)

SpecCrypto == Init /\ [][NextCrypto]_vars

\* The request helpers, called once each with any arguments.
InitHelpers ==
    /\ redis_dsn = None
    /\ cache_provider = "in_memory"
    /\ argPage \in Optional((0 - MaxPage)..MaxPage)
    /\ argPageSize \in Optional((0 - MaxPage)..MaxPage)
    /\ argSorting \in Optional(Strings(MaxSortLen))
    /\ Start

CallGetPagination ==
    /\ retPagination = <<>>
    /\ retPagination' = <<GetPagination(argPage, argPageSize)>>
    /\ UNCHANGED <<coreVars, lockVars, argPage, argPageSize, argSorting, retSorting>>

CallGetSorting ==
    /\ retSorting = <<>>
    /\ retSorting' = <<GetSorting(argSorting)>>
    /\ UNCHANGED <<coreVars, lockVars, argPage, argPageSize, argSorting,
                   retPagination>>

NextHelpers == CallGetPagination \/ CallGetSorting

SpecHelpers == InitHelpers /\ [][NextHelpers]_vars

\* ================================================================== claims

\* ---- C1 ----------------------------------------------------------------
\* C1: over any interleaving of first-time resolutions of the cache
\* repository and the lock service by concurrent APP containers and REQUEST
\* scopes, RedisManager.redis and CacheManager.cache_repository are each
\* assigned at most once, every scope that holds the cache repository or the
\* lock service holds the one published client, and with the infrastructure
\* configured no such resolution fails.
C1_OneClientPublished ==
    /\ Len(redisLog) <= 1
    /\ Len(cacheLog) <= 1
    /\ \A a \in Apps :
        /\ appCache[a]["Cache"] # Absent =>
               cache_repository # None /\ appCache[a]["Cache"] = cache_repository
        /\ appCache[a]["LockService"] # Absent =>
               redis # None /\ appCache[a]["LockService"] = redis
        /\ redis_dsn # None => appError[a].cap # "LockService"
        /\ (redis_dsn # None \/ cache_provider = "in_memory") =>
               appError[a].cap # "Cache"

\* Two containers in a first-time resolution at once: container 1 began
\* get_cache_repository before any repository was published and is still
\* suspended, while container 2 already holds the published repository.
C1_Witness ==
    /\ appPc[1].busy /\ appPc[1].first
    /\ appCache[2]["Cache"] # Absent
    /\ appCache[2]["Cache"] = cache_repository
    /\ redis # None

\* ---- C8 ----------------------------------------------------------------
\* C8: once RedisManager.redis or CacheManager.cache_repository is published,
\* no step of any resolution, in any scope, replaces or clears it.
C8_HandlesNeverReplaced ==
    [][/\ redis # None => redis' = redis
       /\ cache_repository # None => cache_repository' = cache_repository]_vars

\* A re-created APP container (the first one is closed) holds both the cache
\* repository and the lock service: the later of the two resolutions ran
\* with the Redis client already published.
C8_Witness ==
    /\ appState[1] \in {"closed", "aborted"}
    /\ appCache[2]["Cache"] # Absent
    /\ appCache[2]["LockService"] # Absent
    /\ redis # None /\ cache_repository # None

\* ---- C10 ---------------------------------------------------------------
\* C10: the client held by a lock service is RedisManager.redis, and it is
\* the client every CacheManager.init call of get_cache_repository was
\* handed, whichever provider ran first.
C10_LockServiceOnSharedClient ==
    \A a \in Apps :
        appCache[a]["LockService"] # Absent =>
            /\ appCache[a]["LockService"] = redis
            /\ \A i \in 1..Len(cacheInits) :
                   cacheInits[i].redis = appCache[a]["LockService"]

\* A lock service exists and get_cache_repository has called CacheManager.init.
C10_Witness ==
    \E a \in Apps :
        /\ appCache[a]["LockService"] # Absent
        /\ Len(cacheInits) >= 1
        /\ cache_repository # None

\* ---- C7 ----------------------------------------------------------------
\* C7: a resolution of the cache repository or the lock service that finds
\* the client absent after init fails with one and the same error kind for
\* every dependent, and no scope holds a service built on an absent client.
C7_OneNotInitializedError ==
    /\ \A a, b \in Apps :
           (appError[a].cap \in {"Cache", "LockService"}
               /\ appError[b].cap \in {"Cache", "LockService"}) =>
               appError[a].kind = appError[b].kind
    /\ \A a \in Apps :
           appCache[a]["Cache"] # None /\ appCache[a]["LockService"] # None

\* ---- C9 ----------------------------------------------------------------
\* C9: the message broker is a registered capability of the provider, every
\* demand for it is served, and at most one broker client is ever made.
C9_BrokerIsSharedCapability ==
    \A a \in Apps :
        /\ appError[a].cap # "KafkaBroker"
        /\ appCalls[a]["KafkaBroker"] <= 1

\* ---- C5 ----------------------------------------------------------------
\* The sub-block of the settings ss that its provider names is present.
MatchingBlockPresent(ss) ==
    \/ ss.provider = "s3" /\ ss.s3
    \/ ss.provider = "local" /\ ss.dir

\* get_storage_repository ran in APP scope a and returned a backend.
StorageSucceeded(a) == storageMakes[a] # <<>>

\* get_storage_repository ran in APP scope a and raised 'not allowed'.
StorageRefused(a) ==
    appError[a] = [cap |-> "Storage", kind |-> "NotImplementedError"]

\* C5 as stated: selection succeeds only when exactly one of the two
\* sub-blocks is present and it matches the provider.
C5_ExactlyOneBlock ==
    \A a \in Apps :
        StorageSucceeded(a) =>
            /\ storageSettings[a].s3 # storageSettings[a].dir
            /\ MatchingBlockPresent(storageSettings[a])

\* C5 as amended: selection succeeds exactly when the sub-block matching the
\* provider is present, whether or not the other one is; in every other
\* configuration the 'not allowed' error is raised and no backend is made.
C5_MatchingBlockDecides ==
    \A a \in Apps :
        storageSettings[a] # NoSettings =>
            /\ StorageSucceeded(a) <=> MatchingBlockPresent(storageSettings[a])
            /\ StorageRefused(a) <=> ~MatchingBlockPresent(storageSettings[a])
            /\ StorageRefused(a) =>
                   storageMakes[a] = <<>> /\ appCache[a]["Storage"] = Absent

\* Both sub-blocks are present, the provider is 's3', and the S3 backend was
\* constructed.
C5_Witness ==
    \E a \in Apps :
        /\ storageSettings[a] = [provider |-> "s3", s3 |-> TRUE, dir |-> TRUE]
        /\ storageMakes[a] = <<"S3">>
        /\ appCache[a]["Storage"] = StorageValue("S3")

\* ---- C6 ----------------------------------------------------------------
\* C6: the factory is called with S3 only for provider 's3' and with LOCAL
\* only for provider 'local', at most once per resolution; for any other
\* provider, or a missing matching sub-block, NotImplementedError is raised
\* and the factory is not called; a memoized backend has the provider's type.
C6_NoDefaultBackend ==
    \A a \in Apps :
        /\ Len(storageMakes[a]) <= 1
        /\ \A i \in 1..Len(storageMakes[a]) :
               /\ storageMakes[a][i] = "S3" => storageSettings[a].provider = "s3"
               /\ storageMakes[a][i] = "LOCAL" => storageSettings[a].provider = "local"
        /\ (storageSettings[a] # NoSettings
               /\ (storageSettings[a].provider \notin {"s3", "local"}
                      \/ ~MatchingBlockPresent(storageSettings[a]))) =>
               storageMakes[a] = <<>> /\ StorageRefused(a)
        /\ appCache[a]["Storage"] # Absent =>
               appCache[a]["Storage"] =
                   StorageValue(IF storageSettings[a].provider = "s3"
                                THEN "S3" ELSE "LOCAL")

\* One container was refused an 'ftp' provider although a dir block was
\* present, and another holds a LOCAL backend made for provider 'local'.
C6_Witness ==
    \E a, b \in Apps :
        /\ storageSettings[a] = [provider |-> "ftp", s3 |-> FALSE, dir |-> TRUE]
        /\ StorageRefused(a) /\ storageMakes[a] = <<>>
        /\ storageSettings[b].provider = "local"
        /\ storageMakes[b] = <<"LOCAL">>
        /\ appCache[b]["Storage"] = StorageValue("LOCAL")

\* ---- C2 ----------------------------------------------------------------
\* C2: the session made by get_async_session for a REQUEST scope is open
\* while the scope is open and, once the scope has closed, whatever the
\* outcome of the unit of work, it is closed and was closed exactly once.
C2_SessionClosedExactlyOnce ==
    \A sid \in 1..Len(sessions) :
        LET s == sessions[sid]
        IN  /\ s.closes <= 1
            /\ s.owner \in Requests
            /\ reqState[s.owner] = "open" => s.state = "OPEN" /\ s.closes = 0
            /\ reqState[s.owner] = "closed" =>
                   /\ s.state \in {"COMMITTED_CLOSED", "ROLLED_BACK_CLOSED"}
                   /\ s.closes = 1

\* One unit of work ended well and one failed or was cancelled; both scopes
\* are closed and each session was closed once.
C2_Witness ==
    /\ Len(sessions) = 2
    /\ sessions[1].state = "ROLLED_BACK_CLOSED" /\ sessions[1].closes = 1
    /\ sessions[2].state = "COMMITTED_CLOSED" /\ sessions[2].closes = 1
    /\ \A r \in {1, 2} : reqState[r] = "closed"

\* ---- C4 ----------------------------------------------------------------
\* C4: every session-bearing object memoized in a REQUEST scope (the session,
\* the session manager, the services) is built on a session that this same
\* scope created; the session manager wraps the scope's own session; and two
\* REQUEST scopes never hold the same session.
C4_SessionsOwnedByTheirScope ==
    /\ \A r \in Requests, cap \in ReqCaps :
           reqCache[r][cap] # Absent =>
               /\ reqCache[r][cap] \in 1..Len(sessions)
               /\ sessions[reqCache[r][cap]].owner = r
    /\ \A r \in Requests :
           reqCache[r]["SessionManager"] # Absent =>
               reqCache[r]["SessionManager"] = reqCache[r]["AsyncSession"]
    /\ \A r, q \in Requests :
           (r # q /\ reqCache[r]["SessionManager"] # Absent
                  /\ reqCache[q]["SessionManager"] # Absent) =>
               reqCache[r]["SessionManager"] # reqCache[q]["SessionManager"]

\* Two REQUEST scopes of one APP container are open at once and each holds a
\* session manager.
C4_Witness ==
    /\ reqState[1] = "open" /\ reqState[2] = "open"
    /\ reqParent[1] = reqParent[2]
    /\ reqCache[1]["SessionManager"] # Absent
    /\ reqCache[2]["SessionManager"] # Absent

\* ---- C3 ----------------------------------------------------------------
\* Every capability reachable from S along the declared dependencies.
RECURSIVE Reach(_)
Reach(S) ==
    LET T == S \cup UNION {Deps(c) : c \in S}
    IN  IF T = S THEN S ELSE Reach(T)

\* C3: no capability depends on itself, directly or transitively; no
\* resolution ends in a cycle error; and in every scope instance each
\* provider function has been invoked at most once, in the scope its tag
\* names.
C3_AcyclicAndOncePerScope ==
    /\ \A c \in Caps : c \notin Reach(Deps(c))
    /\ \A a \in Apps :
           /\ appError[a].kind # "CycleError"
           /\ \A c \in Caps :
                  /\ appCalls[a][c] <= 1
                  /\ appCalls[a][c] = 1 => ScopeOf(c) = "APP"
                  /\ appCache[a][c] # Absent => appCalls[a][c] = 1
    /\ \A r \in Requests :
           \A c \in Caps :
               /\ reqCalls[r][c] <= 1
               /\ reqCalls[r][c] = 1 => ScopeOf(c) = "REQUEST"
               /\ reqCache[r][c] # Absent => reqCalls[r][c] = 1

\* The second REQUEST scope of a container holds both services and the
\* container holds the cryptography service, the cache repository and a
\* storage backend: the settings repository, which all of them depend on,
\* was constructed once.
C3_Witness ==
    /\ reqState[1] = "closed" /\ reqState[2] = "open"
    /\ reqCache[2]["SeedService"] # Absent
    /\ reqCache[2]["TransactionService"] # Absent
    /\ LET a == reqParent[2]
       IN  /\ appCache[a]["CryptographyService"] # Absent
           /\ appCache[a]["Cache"] # Absent
           /\ appCache[a]["Storage"] # Absent
           /\ appCalls[a]["SettingsRepository"] = 1

\* ---- C11 ---------------------------------------------------------------
\* The capabilities built on the session of a REQUEST scope.
SessionDependents == {"SessionManager", "SeedService", "TransactionService"}

\* C11: in every REQUEST scope a capability is constructed after the
\* capabilities of that scope it depends on, so the AsyncSession precedes the
\* session manager and the services; and while the scope unwinds, in reverse
\* of that order, the session is still held and open as long as one of its
\* dependents has not been released.
C11_ConstructThenUnwindInReverse ==
    \A r \in Requests :
        /\ \A i, j \in 1..Len(reqOrder[r]) :
               reqOrder[r][i] \in Reach(Deps(reqOrder[r][j])) => i < j
        /\ \A j \in 1..Len(reqOrder[r]) :
               reqOrder[r][j] \in SessionDependents =>
                   \E i \in 1..(j - 1) : reqOrder[r][i] = "AsyncSession"
        /\ \A cap \in SessionDependents :
               reqCache[r][cap] # Absent =>
                   /\ reqCache[r]["AsyncSession"] # Absent
                   /\ reqCache[r]["AsyncSession"] \in 1..Len(sessions)
                   /\ sessions[reqCache[r]["AsyncSession"]].state = "OPEN"

\* A scope that had constructed the session, the session manager and the
\* seed service is unwinding after a failure: the seed service has been
\* released, the session manager and the open session are still held.
C11_Witness ==
    \E r \in Requests :
        /\ reqState[r] = "failure"
        /\ reqCalls[r]["SeedService"] = 1
        /\ reqOrder[r] = <<"AsyncSession", "SessionManager">>
        /\ sessions[reqCache[r]["AsyncSession"]].state = "OPEN"

\* ---- C12 ---------------------------------------------------------------
\* Nothing is memoized for a capability whose provider cannot succeed: the
\* cache repository without a Redis client under the redis provider, the
\* lock service without redis_dsn, a storage backend for refused settings.
NoValueForFailedProvider ==
    \A a \in Apps :
        /\ (redis_dsn = None /\ cache_provider = "redis") =>
               appCache[a]["Cache"] = Absent
        /\ redis_dsn = None => appCache[a]["LockService"] = Absent
        /\ (storageSettings[a] # NoSettings
                /\ StorageChoice(storageSettings[a]) = "none") =>
               appCache[a]["Storage"] = Absent
        /\ appError[a].kind # NoError =>
               appState[a] = "aborted" /\ appCache[a] = EmptyStore

\* A step in which a provider of APP container a fails: the error is
\* recorded against the failed capability, the container keeps no value, the
\* caller awaiting the suspended cache provider is unwound, and every
\* REQUEST scope unwound by the step is left empty with its session rolled
\* back and closed once.
FailureUnwinds(a) ==
    (appError[a].kind = NoError /\ appError'[a].kind # NoError) =>
        /\ appError'[a].cap \in Caps \cup {"#cycle"}
        /\ appState'[a] = "aborted"
        /\ appCache'[a] = EmptyStore
        /\ (appPc[a].busy /\ appPc[a].caller # 0) =>
               reqState'[appPc[a].caller] = "closed"
        /\ \A r \in Requests :
               (reqState[r] = "open" /\ reqState'[r] # "open") =>
                   /\ reqState'[r] = "closed"
                   /\ reqCache'[r] = EmptyStore
                   /\ \A sid \in 1..Len(sessions') :
                          sessions'[sid].owner = r =>
                              /\ sessions'[sid].state \in
                                     {"COMMITTED_CLOSED", "ROLLED_BACK_CLOSED"}
                              /\ sessions'[sid].closes = 1
                              /\ (sid <= Len(sessions)
                                      /\ sessions[sid].state = "OPEN") =>
                                     sessions'[sid].state = "ROLLED_BACK_CLOSED"

LockStep(c) ==
    /\ (lockToken[c] = None /\ lockToken'[c] # None) =>
           /\ lockValue = None
           /\ lockValue' = lockToken'[c]
           /\ \A d \in Callers \ {c} : lockToken'[d] # lockToken'[c]
    /\ (lockToken[c] # None /\ lockToken'[c] = None
            /\ lockToken[c] # lockValue) =>
           /\ lockValue' = lockValue
           /\ ~lockEvent'[c].ok

\* C13: while one caller holds the unexpired lock, an acquire by another
\* caller does not succeed until the holder releases or the TTL expires, and
\* a release with an expired or foreign token fails without releasing the
\* lock another caller holds.
C13_LockExcludesAndReleaseNeedsToken ==
    /\ [](\A c, d \in Callers :
              (c # d /\ lockToken[c] # None) => lockToken[c] # lockToken[d])
    /\ [][\A c \in Callers : LockStep(c)]_vars

\* The first caller released with its expired token while the second caller
\* held the lock: the release failed and the second caller still holds it.
C13_Witness ==
    /\ lockEvent[1] = [op |-> "release", ok |-> FALSE, left |-> lockValue]
    /\ lockValue # None
    /\ lockToken[2] = lockValue
    /\ lockEvent[2].op = "acquire" /\ lockEvent[2].ok

\* ---- C14 ---------------------------------------------------------------
\* C14: no capability provided in the APP scope depends, directly or through
\* other capabilities, on one provided in the REQUEST scope (the session, the
\* session manager, the seed and transaction services), and no APP container
\* ever constructs or holds one of those; the dependencies of the REQUEST
\* capabilities on APP capabilities are the only ones that cross scopes.
C14_AppNeverDependsOnRequest ==
    /\ \A c \in Caps :
           ScopeOf(c) = "APP" =>
               \A d \in Reach(Deps(c)) : ScopeOf(d) = "APP" /\ d \notin ReqCaps
    /\ \A c \in ReqCaps : ScopeOf(c) = "REQUEST"
    /\ \A a \in Apps, c \in ReqCaps :
           appCache[a][c] = Absent /\ appCalls[a][c] = 0
    /\ \A r \in Requests, c \in AppCaps :
           reqCache[r][c] = Absent /\ reqCalls[r][c] = 0

\* A REQUEST scope holds the transaction service and the session manager,
\* whose session was built on the settings repository its APP container
\* holds next to the cache repository and the cryptography service.
C14_Witness ==
    \E r \in Requests :
        /\ reqState[r] = "open"
        /\ reqCache[r]["TransactionService"] # Absent
        /\ reqCache[r]["SessionManager"] # Absent
        /\ appCache[reqParent[r]]["SettingsRepository"] # Absent
        /\ appCache[reqParent[r]]["Cache"] # Absent
        /\ appCache[reqParent[r]]["CryptographyService"] # Absent

\* ---- C15 ---------------------------------------------------------------
\* C15: in every APP container the cryptography factory is constructed at
\* most once, with the secret key of the container's settings, and exactly
\* once where a cryptography service exists; every service was made by that
\* factory, in one make call for AES_GCM; and the services of all containers
\* work with the same key.
C15_OneFactoryOneKey ==
    /\ \A a \in Apps :
           /\ appCalls[a]["CryptographyServiceFactory"] <= 1
           /\ appCache[a]["CryptographyServiceFactory"] # Absent =>
                  appCache[a]["CryptographyServiceFactory"] =
                      SecretKeyOf(appCache[a]["CoreSettings"])
           /\ appCache[a]["CryptographyService"] # Absent =>
                  /\ appCalls[a]["CryptographyServiceFactory"] = 1
                  /\ appCache[a]["CryptographyServiceFactory"] # Absent
                  /\ cryptoMakes[a] =
                         <<[factory |-> appCache[a]["CryptographyServiceFactory"],
                            algorithm |-> "AES_GCM"]>>
                  /\ appCache[a]["CryptographyService"] =
                         appCache[a]["CryptographyServiceFactory"]
           /\ appCache[a]["CryptographyService"] = Absent => cryptoMakes[a] = <<>>
    /\ \A a, b \in Apps :
           (appCache[a]["CryptographyService"] # Absent
               /\ appCache[b]["CryptographyService"] # Absent) =>
               appCache[a]["CryptographyService"] = appCache[b]["CryptographyService"]

\* Two APP containers are open and each holds a cryptography service; a
\* unit of work of the first one is open.
C15_Witness ==
    /\ appState[1] = "open" /\ appState[2] = "open"
    /\ appCache[1]["CryptographyService"] # Absent
    /\ appCache[2]["CryptographyService"] # Absent
    /\ reqState[1] = "open" /\ reqParent[1] = 1

\* ---- C16 ---------------------------------------------------------------
\* C16: every CacheManager.init call of get_cache_repository was made while
\* no repository was published, so none follows the one that published; a
\* container that obtained the cache repository holds the published one;
\* and with redis_dsn unset the provider never initialises Redis, so
\* CacheManager.init is handed the absent client RedisManager.redis holds.
C16_InitOnlyWhileAbsent ==
    /\ \A i \in 1..Len(cacheInits) :
           /\ cacheInits[i].before = None
           /\ cacheInits[i].redis = redis
    /\ Len(cacheLog) <= 1
    /\ cache_repository # None =>
           /\ Len(cacheLog) = 1
           /\ cacheLog[1].id = cache_repository
    /\ \A a \in Apps :
           appCache[a]["Cache"] # Absent =>
               appCache[a]["Cache"] = cache_repository /\ cache_repository # None
    /\ redis_dsn = None =>
           /\ redis = None /\ redisLog = <<>>
           /\ \A i \in 1..Len(cacheInits) : cacheInits[i].redis = None
    /\ (redis_dsn # None /\ cacheInits # <<>>) => redis # None

\* With redis_dsn unset and the in-memory provider, two APP containers hold
\* the cache repository after a single CacheManager.init call, which was
\* handed the absent Redis client.
C16_Witness ==
    /\ redis_dsn = None
    /\ cacheInits = <<[redis |-> None, before |-> None]>>
    /\ appCache[1]["Cache"] # Absent
    /\ appCache[2]["Cache"] # Absent
    /\ appCalls[1]["Cache"] = 1 /\ appCalls[2]["Cache"] = 1

\* ---- C17 ---------------------------------------------------------------
\* C17: get_pagination returns the page it is given when that is an integer
\* other than 0, and 1 for None or 0; the page_size it is given when that is
\* an integer other than 0, and 10 for None or 0; get_sorting returns the
\* empty sequence, without raising, for None and for the empty string.
C17_PaginationDefaultsAndEmptySorting ==
    /\ retPagination # <<>> =>
           /\ \A n \in argPage : n # 0 => retPagination[1].page = n
           /\ (argPage = {} \/ argPage = {0}) => retPagination[1].page = 1
           /\ \A n \in argPageSize : n # 0 => retPagination[1].page_size = n
           /\ (argPageSize = {} \/ argPageSize = {0}) =>
                  retPagination[1].page_size = 10
    /\ (retSorting # <<>> /\ (argSorting = {} \/ argSorting = {<<>>})) =>
           retSorting[1] = [raised |-> FALSE, value |-> <<>>]

\* get_pagination was called with page 0 and a negative page_size, and
\* get_sorting with the empty string.
C17_Witness ==
    /\ argPage = {0}
    /\ argPageSize = {0 - 1}
    /\ argSorting = {<<>>}
    /\ retPagination = <<[page |-> 1, page_size |-> 0 - 1]>>
    /\ retSorting # <<>>

====
